---- MODULE Spec2Model ----
(***************************************************************************)
(* The Pomodoro timer of pages/Timer.tsx (src/unnamed/part_002, lines      *)
(* 237-655): a React function component.  Its state is the useState cells  *)
(* and refs of the component; its operations are the event handlers, the   *)
(* interval and timeout callbacks and the continuations of the async       *)
(* function handlePhaseEnd.                                                *)
(*                                                                         *)
(* React semantics the model relies on:                                    *)
(*  - every function of the component is a closure over the values of the  *)
(*    render that created it.  A handler attached in JSX is the one of the *)
(*    latest render (Render); the interval callback and the keydown        *)
(*    listener are the ones of the render in which running or phase last   *)
(*    changed (effEnv, the effects' dependency list is [running, phase]);  *)
(*    a continuation of handlePhaseEnd and a setTimeout callback keep the  *)
(*    closure of the call that created them;                               *)
(*  - the state updates of one handler are applied together (React 18      *)
(*    batching, createRoot);                                               *)
(*  - an updater function passed to a state setter runs in the render that *)
(*    follows the call; React may instead run it at the call when the      *)
(*    component has no other pending work.                                 *)
(* Time is counted in whole seconds (now); new Date() reads now.           *)
(*                                                                         *)
(* Two more pages are modelled with their tables: createGroup of           *)
(* pages/Groups.tsx and the message list of pages/Chat.tsx.  Each page is  *)
(* a component of its own; a step of one leaves the cells of the others    *)
(* unchanged.                                                              *)
(***************************************************************************)
EXTENDS Integers, Sequences, FiniteSets, TLC

VARIABLES
  workMin, shortMin, longMin, intervalsBeforeLong, \* configuration cells
  phase, remaining, intervalCount, running,        \* timer cells
  history,          \* local list of recent focus sessions
  timerRef,         \* due time of the live interval, Null when there is none
  focusStartRef,    \* focusStartRef.current
  effEnv,           \* closure held by the effects with deps [running, phase]
  timeouts,         \* pending auto-start timeouts
  pending,          \* suspended calls of handlePhaseEnd
  sessions,         \* rows handed to study_sessions.insert, in call order
  now,              \* wall clock, seconds
  commands,         \* number of commands the user has issued
  mounted,          \* FALSE once a render has thrown and React removed the tree
  notice,           \* what the latest step told the user (window.notify, beep)
  table,            \* the user's rows of study_sessions in the database
  load,             \* the load of past sessions started on mount
  studyGroups,      \* rows of study_groups in the database
  groupMembers,     \* rows of group_members in the database
  myGroupIds,       \* Groups page: ids of the groups the user belongs to
  groups,           \* Groups page: the groups it lists
  busyId,           \* Groups page: what is being joined or created
  creating,         \* Groups page: suspended calls of createGroup
  created,          \* Groups page: number of clicks on Create
  toast,            \* Groups page: what the latest step told the user
  messages,         \* rows of messages in the database
  gid,              \* Chat page: the selected group, "" when there is none
  msgs,             \* Chat page: the list of messages it shows
  loads,            \* Chat page: calls of loadMessages waiting for the answer
  channel,          \* Chat page: subRef.current, the realtime subscription
  events,           \* Chat page: INSERT events on their way to the callback
  notified,         \* ids of the messages an INSERT event was sent for
  selected,         \* Chat page: number of selections the user has made
  inserted          \* number of messages written while the page is open

vars == <<workMin, shortMin, longMin, intervalsBeforeLong, phase, remaining,
          intervalCount, running, history, timerRef, focusStartRef, effEnv,
          timeouts, pending, sessions, now, commands, mounted, notice,
          table, load, studyGroups, groupMembers, myGroupIds, groups, busyId,
          creating, created, toast, messages, gid, msgs, loads, channel,
          events, notified, selected, inserted>>

\* the cells of the Timer page, with its table
timerVars == <<workMin, shortMin, longMin, intervalsBeforeLong, phase,
               remaining, intervalCount, running, history, timerRef,
               focusStartRef, effEnv, timeouts, pending, sessions, now,
               commands, mounted, notice, table, load>>

\* the cells of the Groups page, with its tables
groupsVars == <<studyGroups, groupMembers, myGroupIds, groups, busyId,
                creating, created, toast>>

\* the cells of the Chat page, with its table
chatVars == <<messages, gid, msgs, loads, channel, events, notified,
              selected, inserted>>

\* what only the persistence side of the page touches
storage == <<table, load>>

config == <<workMin, shortMin, longMin, intervalsBeforeLong>>

Null == -1

\* ---- bounds of the model ------------------------------------------------
\* Ticks that make up one configured minute (the source multiplies by 60).
Scale == 2
MaxNow == 5
MaxCommands == 3
MaxPending == 2
NaturalMaxNow == 9
MaxCreates == 3
MaxSelects == 2
MaxInserts == 2

\* Configurations the inputs can hold when the run starts.
WorkMins == {1}
ShortMins == {1}
LongMins == {2}
IntervalChoices == {1, 2}

\* history keeps the ten most recent entries
HistoryLimit == 10

\* setInterval(..., 1000) and setTimeout(..., 1000), in seconds
TickPeriod == 1
AutoStartDelay == 1

Phases == {"idle", "focus", "short", "long"}
Breaks == {"short", "long"}

\* ---- closures -----------------------------------------------------------
\* The values a function created by the current render closes over.
Render ==
  [running |-> running, phase |-> phase, intervalCount |-> intervalCount,
   workMin |-> workMin, shortMin |-> shortMin, longMin |-> longMin,
   intervalsBeforeLong |-> intervalsBeforeLong]

\* ---- helpers ------------------------------------------------------------
RemoveAt(s, i) == [j \in 1..(Len(s) - 1) |-> IF j < i THEN s[j] ELSE s[j + 1]]

Take(s, n) == IF Len(s) <= n THEN s ELSE SubSeq(s, 1, n)

\* seconds in a calendar day; time 0 is noon of the day the page is opened
DayLength == 86400

\* the yyyy-mm-dd part of an ISO time stamp, as a day number
Day(t) == (t + DayLength \div 2) \div DayLength

\* .order('start_at', { ascending: false })
RECURSIVE OrderDesc(_)
OrderDesc(rows) ==
  IF rows = <<>>
  THEN <<>>
  ELSE LET i == CHOOSE k \in DOMAIN rows :
                  \A j \in DOMAIN rows : rows[k].start_at >= rows[j].start_at
       IN <<rows[i]>> \o OrderDesc(RemoveAt(rows, i))

\* the rows of a list that ended on the day of time t
EndedOn(rows, t) == {i \in DOMAIN rows : Day(rows[i].end_at) = Day(t)}

\* todayCount: the entries of history whose end_at is of today's date
todayCount == Cardinality(EndedOn(history, now))

\* what study_sessions may hold when the page is opened: y sessions of the
\* day before, then k sessions of earlier today
StoredRows(k, y) ==
  [j \in 1..y |-> [start_at |-> -DayLength - 3, end_at |-> -DayLength - 2]]
    \o [j \in 1..k |-> [start_at |-> -3, end_at |-> -2]]

StoredToday == {0, HistoryLimit - 1, HistoryLimit + 1}

\* the configured length, in seconds, of phase p under closure e
Duration(e, p) ==
  CASE p = "focus" -> e.workMin * Scale
    [] p = "short" -> e.shortMin * Scale
    [] p = "long" -> e.longMin * Scale
    [] OTHER -> 0

\* a % b of JavaScript for a >= 0: the sign of b plays no part
JsRem(a, b) == a % (IF b < 0 THEN -b ELSE b)

\* the break a focus phase with closure e is followed by
NextBreak(e) ==
  IF JsRem(e.intervalCount + 1, e.intervalsBeforeLong) = 0
  THEN "long" ELSE "short"

\* the "Next Break" cell of the stats strip (line 644)
NextBreakShown ==
  IF phase = "idle" THEN "none"
  ELSE IF phase = "focus"
  THEN IF JsRem(intervalCount + 1, intervalsBeforeLong) = 0
       THEN "long" ELSE "short"
  ELSE "none"

\* ---- the configuration inputs -------------------------------------------
\* e.target.value of an <input type="number">, as a sequence of characters;
\* the browser hands out the empty string for text that is not a number.
InputValues ==
  {<<>>, <<"0">>, <<"1">>, <<"2">>, <<"-", "1">>, <<"2", ".", "5">>}

IsDigit(c) == c \in {"0", "1", "2", "3", "4", "5", "6", "7", "8", "9"}

DigitOf(c) ==
  CASE c = "0" -> 0 [] c = "1" -> 1 [] c = "2" -> 2 [] c = "3" -> 3
    [] c = "4" -> 4 [] c = "5" -> 5 [] c = "6" -> 6 [] c = "7" -> 7
    [] c = "8" -> 8 [] c = "9" -> 9

RECURSIVE ReadDigits(_, _, _)
ReadDigits(text, i, acc) ==
  IF i > Len(text) \/ ~IsDigit(text[i])
  THEN acc
  ELSE ReadDigits(text, i + 1, acc * 10 + DigitOf(text[i]))

\* parseInt(text): an optional sign and the digits that follow it; NaN
\* (nan) when there is no digit there
ParseInt(text) ==
  LET signed == Len(text) > 0 /\ text[1] \in {"-", "+"}
      first == IF signed THEN 2 ELSE 1
  IN IF first > Len(text) \/ ~IsDigit(text[first])
     THEN [nan |-> TRUE, val |-> 0]
     ELSE [nan |-> FALSE,
           val |-> (IF signed /\ text[1] = "-" THEN -1 ELSE 1)
                     * ReadDigits(text, first, 0)]

\* parseInt(e.target.value) || 1: NaN and 0 are falsy
OrOne(text) ==
  LET n == ParseInt(text) IN IF n.nan \/ n.val = 0 THEN 1 ELSE n.val

\* ---- the effects --------------------------------------------------------
\* After a commit that changed running or phase, both effects run again:
\* the old interval is cleared, a new one is set when running, and the
\* callbacks now close over this render.  ticked: the interval just fired.
Effects(ticked) ==
  IF running' # running \/ phase' # phase
  THEN /\ effEnv' = Render'
       /\ timerRef' = IF running' THEN now + TickPeriod ELSE Null
  ELSE /\ effEnv' = effEnv
       /\ timerRef' = IF ticked THEN timerRef + TickPeriod ELSE timerRef

\* ---- handlePhaseEnd -----------------------------------------------------
\* handlePhaseEnd awaits (and so returns to its caller) exactly when it
\* takes the branch that records the focus session.
Suspends(e) == e.phase = "focus" /\ focusStartRef # Null

\* Room left, within the bounds, for one more call of handlePhaseEnd.
CanEnd(e) == Suspends(e) => Len(pending) < MaxPending

\* an end of phase that goes to Idle after a long break: C25 must tell it
\* from Finish
Finish_BreakToIdle(e) ==
  /\ running' = FALSE
  /\ IF e.phase = "focus"
     THEN /\ intervalCount' = e.intervalCount + 1
          /\ phase' = NextBreak(e)
          /\ remaining' = Duration(e, NextBreak(e))
     ELSE IF e.phase = "short"
     THEN /\ phase' = "focus"
          /\ remaining' = Duration(e, "focus")
          /\ UNCHANGED intervalCount
     ELSE /\ phase' = "idle"
          /\ remaining' = 0
          /\ UNCHANGED intervalCount
  /\ timeouts' = IF e.phase = "idle"
                 THEN timeouts   \* its callback does nothing (line 447)
                 ELSE timeouts \cup {[due |-> now + AutoStartDelay, phase |-> e.phase]}

\* Lines 424-448: the part of handlePhaseEnd after the recording branch.
Finish(e) ==
  /\ running' = FALSE
  /\ IF e.phase = "focus"
     THEN /\ intervalCount' = e.intervalCount + 1
          /\ phase' = NextBreak(e)
          /\ remaining' = Duration(e, NextBreak(e))
     ELSE IF e.phase \in Breaks
     THEN /\ phase' = "focus"
          /\ remaining' = Duration(e, "focus")
          /\ UNCHANGED intervalCount
     ELSE /\ phase' = "idle"
          /\ remaining' = 0
          /\ UNCHANGED intervalCount
  /\ timeouts' = IF e.phase = "idle"
                 THEN timeouts   \* its callback does nothing (line 447)
                 ELSE timeouts \cup {[due |-> now + AutoStartDelay, phase |-> e.phase]}

\* Line 415: the call reaches its first await.
Suspend(e) ==
  pending' = Append(pending, [stage |-> "getUser", env |-> e,
                              startAt |-> Null, endAt |-> Null])

\* ---- the Groups page (src/pages/Groups.tsx) ------------------------------
\* Texts are sequences of characters.
NewNames == {<<>>, <<" ">>, <<" ", "M", " ">>}

NewCodes == {<<"a", "b", "c">>,
             <<" ", "A", "B", "C", "D", "E", " ">>,
             <<"A", "B", "C", "D", "E", "F">>,
             <<"a", "b", "c", "d", "e", "f">>,
             <<"b", "c", "d", "e", "f", "a">>}

\* the join code of the group another user has created
OtherKey == <<"b", "c", "d", "e", "f", "a">>

MinCodeLen == 6

\* String.prototype.trim
RECURSIVE trim(_)
trim(text) ==
  IF text = <<>> THEN text
  ELSE IF Head(text) = " " THEN trim(Tail(text))
  ELSE IF text[Len(text)] = " " THEN trim(SubSeq(text, 1, Len(text) - 1))
  ELSE text

\* String.prototype.toLowerCase
toLowerCase(text) ==
  [j \in DOMAIN text |->
     CASE text[j] = "A" -> "a" [] text[j] = "B" -> "b" [] text[j] = "C" -> "c"
       [] text[j] = "D" -> "d" [] text[j] = "E" -> "e" [] text[j] = "F" -> "f"
       [] text[j] = "M" -> "m" [] text[j] = "P" -> "p"
       [] OTHER -> text[j]]

\* gen_random_uuid(): an id no row of study_groups has
NewId == Cardinality(studyGroups) + 1

\* the "available to join" list (search box empty)
available ==
  {groups[j].id : j \in DOMAIN groups}
    \ {myGroupIds[j] : j \in DOMAIN myGroupIds}

\* ---- the Chat page (src/pages/Chat.tsx) ----------------------------------
\* the groups the user is a member of
ChatGroups == {"g1", "g2"}

\* subRef.current before the first subscription and after removeChannel
NoChannel == [gid |-> "", joined |-> FALSE]

\* .eq("group_id", id).order("created_at", { ascending: true })
MessagesOf(id) == SelectSeq(messages, LAMBDA m : m.group_id = id)

\* how often message m is in the list shown
Shown(m) == Cardinality({j \in DOMAIN msgs : msgs[j] = m})

\* ---- initial state ------------------------------------------------------
InitWith(rows, stage) ==
  /\ workMin \in WorkMins
  /\ shortMin \in ShortMins
  /\ longMin \in LongMins
  /\ intervalsBeforeLong \in IntervalChoices
  /\ phase = "idle"
  /\ remaining = 0
  /\ intervalCount = 0
  /\ running = FALSE
  /\ history = <<>>
  /\ timerRef = Null
  /\ focusStartRef = Null
  /\ effEnv = Render
  /\ timeouts = {}
  /\ pending = <<>>
  /\ sessions = <<>>
  /\ now = 0
  /\ commands = 0
  /\ mounted = TRUE
  /\ notice = {}
  /\ table = rows
  /\ load = [stage |-> stage, data |-> <<>>]
  /\ studyGroups = {[id |-> 1, name |-> <<"P">>, unique_key |-> OtherKey,
                     created_by |-> "other"]}
  /\ groupMembers = {[group_id |-> 1, user_id |-> "other"]}
  /\ myGroupIds = <<>>
  /\ groups = <<[id |-> 1, name |-> <<"P">>, unique_key |-> OtherKey]>>
  /\ busyId = "none"
  /\ creating = <<>>
  /\ created = 0
  /\ toast = "none"
  /\ messages = <<[id |-> 1, group_id |-> "g1"], [id |-> 2, group_id |-> "g2"]>>
  /\ gid = ""
  /\ msgs = <<>>
  /\ loads = <<>>
  /\ channel = NoChannel
  /\ events = <<>>
  /\ notified = {}
  /\ selected = 0
  /\ inserted = 0

\* the page with an empty study_sessions table, its load finished
Init == InitWith(<<>>, "done")

\* the page just mounted over a table with rows, the load not yet started
HistoryInit ==
  \E k \in StoredToday : InitWith(StoredRows(k, 1), "getUser")

\* ---- user commands ------------------------------------------------------
\* toggle() of closure e: the Start/Pause button, or the space key.
Toggle(e) ==
  /\ mounted
  /\ commands < MaxCommands
  /\ commands' = commands + 1
  /\ IF e.running
     THEN /\ running' = FALSE
          /\ UNCHANGED <<phase, remaining, intervalCount, focusStartRef>>
     ELSE /\ IF e.phase = "idle"
             THEN /\ intervalCount' = 0
                  /\ phase' = "focus"
                  /\ remaining' = Duration(e, "focus")
                  /\ focusStartRef' = now
             ELSE IF e.phase = "focus"
             THEN /\ focusStartRef' = now
                  /\ UNCHANGED <<phase, remaining, intervalCount>>
             ELSE UNCHANGED <<phase, remaining, intervalCount, focusStartRef>>
          /\ running' = TRUE
  /\ notice' = {}
  /\ UNCHANGED <<config, history, timeouts, pending, sessions, now, mounted,
                 storage,
                 groupsVars, chatVars>>
  /\ Effects(FALSE)

ToggleButton == Toggle(Render)

ToggleKey == Toggle(effEnv)

\* a reset that keeps the Focus start time: C7 must tell it from Reset
Reset_KeepsStart ==
  /\ mounted
  /\ commands < MaxCommands
  /\ commands' = commands + 1
  /\ running' = FALSE
  /\ phase' = "idle"
  /\ remaining' = 0
  /\ intervalCount' = 0
  /\ notice' = {}
  /\ UNCHANGED <<config, history, focusStartRef, timeouts, pending, sessions,
                 now, mounted, storage,
                 groupsVars, chatVars>>
  /\ Effects(FALSE)

\* reset(): the Reset button, or the R key
Reset ==
  /\ mounted
  /\ commands < MaxCommands
  /\ commands' = commands + 1
  /\ running' = FALSE
  /\ phase' = "idle"
  /\ remaining' = 0
  /\ intervalCount' = 0
  /\ focusStartRef' = Null
  /\ notice' = {}
  /\ UNCHANGED <<config, history, timeouts, pending, sessions, now, mounted,
                 storage,
                 groupsVars, chatVars>>
  /\ Effects(FALSE)

\* onChange of the four configuration inputs.  running and phase do not
\* change, so the effects keep the closures they have.
SetConfig(w, s, l, n) ==
  /\ mounted
  /\ commands < MaxCommands
  /\ commands' = commands + 1
  /\ workMin' = w /\ shortMin' = s /\ longMin' = l
  /\ intervalsBeforeLong' = n
  /\ notice' = {}
  /\ UNCHANGED <<phase, remaining, intervalCount, running, history,
                 focusStartRef, timeouts, pending, sessions, now, mounted,
                 storage,
                 groupsVars, chatVars>>
  /\ Effects(FALSE)

SetWorkMin(text) ==
  SetConfig(OrOne(text), shortMin, longMin, intervalsBeforeLong)

SetShortMin(text) ==
  SetConfig(workMin, OrOne(text), longMin, intervalsBeforeLong)

SetLongMin(text) ==
  SetConfig(workMin, shortMin, OrOne(text), intervalsBeforeLong)

SetIntervalsBeforeLong(text) ==
  SetConfig(workMin, shortMin, longMin, OrOne(text))

\* A call of handlePhaseEnd of closure e from an event handler.
Skip(e) ==
  /\ mounted
  /\ commands < MaxCommands
  /\ commands' = commands + 1
  /\ e.running
  /\ IF Suspends(e)
     THEN /\ Suspend(e)
          /\ notice' = {}
          /\ UNCHANGED <<phase, remaining, intervalCount, running, timeouts>>
     ELSE /\ Finish(e)
          /\ notice' = {"beep"}
          /\ UNCHANGED pending
  /\ UNCHANGED <<config, history, focusStartRef, sessions, now, mounted,
                 storage,
                 groupsVars, chatVars>>
  /\ Effects(FALSE)

\* the Next button, rendered only while running
SkipButton == Skip(Render)

\* the N key: if (running) handlePhaseEnd(), of the listener's closure
SkipKey ==
  IF effEnv.running
  THEN Skip(effEnv)
  ELSE /\ mounted
       /\ commands < MaxCommands
       /\ commands' = commands + 1
       /\ notice' = {}
       /\ UNCHANGED <<config, phase, remaining, intervalCount, running, history,
                      timerRef, focusStartRef, effEnv, timeouts, pending,
                      sessions, now, mounted, storage,
                 groupsVars, chatVars>>

\* ---- timers -------------------------------------------------------------
\* a countdown without the floor at 0: C6 must tell it from Countdown
Countdown_NoFloor(prev) == prev - 1

\* the value the updater of lines 400-406 returns for prev
Countdown(prev) == IF prev <= 1 THEN 0 ELSE prev - 1

\* The interval callback: setRemaining(prev => ...).  The updater runs in
\* the render; the state updates handlePhaseEnd makes from inside it are
\* applied after the value the updater returns.
Tick ==
  /\ mounted
  /\ running
  /\ timerRef # Null /\ timerRef <= now
  /\ IF remaining <= 1
     THEN /\ CanEnd(effEnv)
          /\ IF Suspends(effEnv)
             THEN /\ Suspend(effEnv)
                  /\ remaining' = Countdown(remaining)
                  /\ notice' = {}
                  /\ UNCHANGED <<phase, intervalCount, running, timeouts>>
             ELSE /\ Finish(effEnv)
                  /\ notice' = {"beep"}
                  /\ UNCHANGED pending
     ELSE /\ remaining' = Countdown(remaining)
          /\ notice' = {}
          /\ UNCHANGED <<phase, intervalCount, running, timeouts, pending>>
  /\ UNCHANGED <<config, history, focusStartRef, sessions, now, commands, mounted,
                 storage,
                 groupsVars, chatVars>>
  /\ Effects(TRUE)

\* startPhase() of a closure whose phase is p, as the timeout calls it
StartPhase(p) ==
  /\ IF p = "idle"
     THEN /\ phase' = "focus"
          /\ remaining' = workMin * Scale
          /\ focusStartRef' = now
     ELSE IF p = "focus"
     THEN /\ focusStartRef' = now
          /\ UNCHANGED <<phase, remaining>>
     ELSE UNCHANGED <<phase, remaining, focusStartRef>>
  /\ running' = TRUE

\* The auto-start timeout t fires.
AutoStart(t) ==
  /\ mounted
  /\ t \in timeouts
  /\ t.due <= now
  /\ timeouts' = timeouts \ {t}
  /\ IF t.phase # "idle"
     THEN StartPhase(t.phase)
     ELSE UNCHANGED <<phase, remaining, focusStartRef, running>>
  /\ notice' = {}
  /\ UNCHANGED <<config, intervalCount, history, pending, sessions, now, commands,
                 mounted, storage,
                 groupsVars, chatVars>>
  /\ Effects(FALSE)

\* One second passes; a timer that is due fires first.
AdvanceTo(limit) ==
  /\ mounted
  /\ now < limit
  /\ running => timerRef > now
  /\ \A t \in timeouts : t.due > now
  /\ now' = now + 1
  /\ UNCHANGED <<config, phase, remaining, intervalCount, running, history,
                 timerRef, focusStartRef, effEnv, timeouts, pending, sessions,
                 commands, mounted, storage,
                 groupsVars, chatVars>>
  /\ notice' = {}

Advance == AdvanceTo(MaxNow)

\* ---- continuations of handlePhaseEnd ------------------------------------
\* an answer without a user that keeps the recorded start: C24 must tell it
\* from GetUserReturn
GetUserReturn_KeepsStart(i, user) ==
  /\ mounted
  /\ i \in 1..Len(pending)
  /\ pending[i].stage = "getUser"
  /\ IF user
     THEN /\ IF focusStartRef = Null
             THEN \* focusStartRef.current.toISOString() throws: the call ends
                  /\ pending' = RemoveAt(pending, i)
                  /\ UNCHANGED sessions
             ELSE /\ sessions' = Append(sessions,
                         [start_at |-> focusStartRef, end_at |-> now])
                  /\ pending' = [pending EXCEPT ![i].stage = "insert",
                                                ![i].startAt = focusStartRef,
                                                ![i].endAt = now]
          /\ notice' = {}
          /\ UNCHANGED <<phase, remaining, intervalCount, running, timeouts,
                         focusStartRef>>
     ELSE /\ UNCHANGED focusStartRef
          /\ Finish(pending[i].env)
          /\ notice' = {"warn", "beep"}
          /\ pending' = RemoveAt(pending, i)
          /\ UNCHANGED sessions
  /\ UNCHANGED <<config, history, now, commands, mounted, storage,
                 groupsVars, chatVars>>
  /\ Effects(FALSE)

\* getUserOrWarn() answers call i: a user, or null after a warning.
GetUserReturn(i, user) ==
  /\ mounted
  /\ i \in 1..Len(pending)
  /\ pending[i].stage = "getUser"
  /\ IF user
     THEN /\ IF focusStartRef = Null
             THEN \* focusStartRef.current.toISOString() throws: the call ends
                  /\ pending' = RemoveAt(pending, i)
                  /\ UNCHANGED sessions
             ELSE /\ sessions' = Append(sessions,
                         [start_at |-> focusStartRef, end_at |-> now])
                  /\ pending' = [pending EXCEPT ![i].stage = "insert",
                                                ![i].startAt = focusStartRef,
                                                ![i].endAt = now]
          /\ notice' = {}
          /\ UNCHANGED <<phase, remaining, intervalCount, running, timeouts,
                         focusStartRef>>
     ELSE /\ focusStartRef' = Null
          /\ Finish(pending[i].env)
          /\ notice' = {"warn", "beep"}
          /\ pending' = RemoveAt(pending, i)
          /\ UNCHANGED sessions
  /\ UNCHANGED <<config, history, now, commands, mounted, storage,
                 groupsVars, chatVars>>
  /\ Effects(FALSE)

\* a save whose answer ends the call without the phase change: C11 must
\* tell it from InsertReturn
InsertReturn_NoTransition(i, eager, ok) ==
  /\ mounted
  /\ i \in 1..Len(pending)
  /\ pending[i].stage = "insert"
  /\ table' = IF ok
              THEN Append(table, [start_at |-> pending[i].startAt,
                                  end_at |-> pending[i].endAt])
              ELSE table
  /\ notice' = IF ok THEN {"beep"} ELSE {"error", "beep"}
  /\ pending' = RemoveAt(pending, i)
  /\ UNCHANGED <<config, sessions, now, commands, load, groupsVars, chatVars, mounted,
                 history,
                 phase, remaining, intervalCount, running, timeouts,
                 focusStartRef>>
  /\ Effects(FALSE)

\* The insert of call i answers: the row is stored (ok), or an error comes
\* back and is shown (line 418).  The history updater reads
\* focusStartRef.current when it runs: at the call (eager), or in the
\* render, after line 422 has cleared the ref; reading null throws, and a
\* render that throws removes the component.
InsertReturn(i, eager, ok) ==
  /\ mounted
  /\ i \in 1..Len(pending)
  /\ pending[i].stage = "insert"
  /\ focusStartRef' = Null
  /\ table' = IF ok
              THEN Append(table, [start_at |-> pending[i].startAt,
                                  end_at |-> pending[i].endAt])
              ELSE table
  /\ notice' = IF ok THEN {"beep"} ELSE {"error", "beep"}
  /\ UNCHANGED <<config, sessions, now, commands, load, groupsVars, chatVars>>
  /\ IF eager /\ focusStartRef # Null
     THEN /\ history' = Take(<<[start_at |-> focusStartRef,
                                end_at |-> pending[i].endAt]>> \o history,
                             HistoryLimit)
          /\ Finish(pending[i].env)
          /\ pending' = RemoveAt(pending, i)
          /\ UNCHANGED mounted
          /\ Effects(FALSE)
     ELSE \* the component is gone, and its timers and continuations with it
          /\ mounted' = FALSE
          /\ pending' = <<>>
          /\ timeouts' = {}
          /\ timerRef' = Null
          /\ UNCHANGED <<phase, remaining, intervalCount, running, history,
                         effEnv>>

\* The mount effect (lines 387-394): getUserOrWarn answers.  With a user the
\* select is sent and the database answers it with the ten most recent rows.
LoadGetUser(user) ==
  /\ mounted
  /\ load.stage = "getUser"
  /\ load' = IF user
             THEN [stage |-> "select",
                   data |-> Take(OrderDesc(table), HistoryLimit)]
             ELSE [stage |-> "failed", data |-> <<>>]
  /\ notice' = IF user THEN {} ELSE {"warn"}
  /\ UNCHANGED <<config, phase, remaining, intervalCount, running, history,
                 focusStartRef, timeouts, pending, sessions, now, commands,
                 mounted, table, groupsVars, chatVars>>
  /\ Effects(FALSE)

\* the answer of the select arrives: setHistory(data)
LoadReturn ==
  /\ mounted
  /\ load.stage = "select"
  /\ history' = load.data
  /\ load' = [stage |-> "done", data |-> <<>>]
  /\ notice' = {}
  /\ UNCHANGED <<config, phase, remaining, intervalCount, running,
                 focusStartRef, timeouts, pending, sessions, now, commands,
                 mounted, table, groupsVars, chatVars>>
  /\ Effects(FALSE)


\* ---- createGroup (Groups.tsx, lines 108-131) -----------------------------
\* The Create button: the two checks of the form, then getUserOrWarn.
CreateGroup(newName, newCode) ==
  /\ created < MaxCreates
  /\ created' = created + 1
  /\ LET name == trim(newName)
         code == toLowerCase(trim(newCode))
     IN IF name = <<>> \/ Len(code) < MinCodeLen
        THEN /\ toast' = "error"
             /\ UNCHANGED creating
        ELSE /\ creating' = Append(creating, [stage |-> "getUser",
                                              name |-> name, code |-> code,
                                              id |-> Null])
             /\ UNCHANGED toast
  /\ UNCHANGED <<timerVars, chatVars, studyGroups, groupMembers, myGroupIds, groups,
                 busyId>>

\* getUserOrWarn answers: without a user the call ends, with one the insert
\* into study_groups is sent
CreateGetUser(i, user) ==
  /\ i \in 1..Len(creating)
  /\ creating[i].stage = "getUser"
  /\ IF user
     THEN /\ busyId' = "create"
          /\ creating' = [creating EXCEPT ![i].stage = "insertGroup"]
          /\ UNCHANGED toast
     ELSE /\ creating' = RemoveAt(creating, i)
          /\ toast' = "error"
          /\ UNCHANGED busyId
  /\ UNCHANGED <<timerVars, chatVars, studyGroups, groupMembers, myGroupIds, groups,
                 created>>

\* the insert into study_groups answers; unique_key is a unique column.
\* On an error the call ends in catch and finally, otherwise the insert into
\* group_members is sent.
GroupInsertReturn(i, ok) ==
  /\ i \in 1..Len(creating)
  /\ creating[i].stage = "insertGroup"
  /\ IF ok /\ \A g \in studyGroups : g.unique_key # creating[i].code
     THEN /\ studyGroups' = studyGroups \cup
                              {[id |-> NewId, name |-> creating[i].name,
                                unique_key |-> creating[i].code,
                                created_by |-> "me"]}
          /\ creating' = [creating EXCEPT ![i].stage = "insertMember",
                                          ![i].id = NewId]
          /\ UNCHANGED <<busyId, toast>>
     ELSE /\ toast' = "error"
          /\ busyId' = "none"
          /\ creating' = RemoveAt(creating, i)
          /\ UNCHANGED studyGroups
  /\ UNCHANGED <<timerVars, chatVars, groupMembers, myGroupIds, groups, created>>

\* the insert into group_members answers
MemberInsertReturn(i, ok) ==
  /\ i \in 1..Len(creating)
  /\ creating[i].stage = "insertMember"
  /\ IF ok
     THEN /\ groupMembers' = groupMembers \cup
                               {[group_id |-> creating[i].id, user_id |-> "me"]}
          /\ myGroupIds' = Append(myGroupIds, creating[i].id)
          /\ groups' = Append(groups, [id |-> creating[i].id,
                                       name |-> creating[i].name,
                                       unique_key |-> creating[i].code])
          /\ toast' = "success"
     ELSE /\ toast' = "error"
          /\ UNCHANGED <<groupMembers, myGroupIds, groups>>
  /\ busyId' = "none"
  /\ creating' = RemoveAt(creating, i)
  /\ UNCHANGED <<timerVars, chatVars, studyGroups, created>>


\* ---- Chat (Chat.tsx, lines 37-68) ----------------------------------------
\* onChange of the group select: setGid, then the effect with deps [gid]:
\* the cleanup of the previous run removes its channel; for a group the new
\* run calls loadMessages and subscribes.  msgs is not touched.
SelectGroup(g) ==
  /\ selected < MaxSelects
  /\ selected' = selected + 1
  /\ g # gid
  /\ gid' = g
  /\ events' = <<>>
  /\ IF g = ""
     THEN /\ channel' = NoChannel
          /\ UNCHANGED loads
     ELSE /\ channel' = [gid |-> g, joined |-> FALSE]
          /\ loads' = Append(loads, [gid |-> g, stage |-> "sent", data |-> <<>>])
  /\ UNCHANGED <<timerVars, groupsVars, messages, msgs, notified, inserted>>

\* the realtime server has registered the subscription
ChannelJoined ==
  /\ channel.gid # "" /\ ~channel.joined
  /\ channel' = [channel EXCEPT !.joined = TRUE]
  /\ UNCHANGED <<timerVars, groupsVars, messages, gid, msgs, loads, events,
                 notified, selected, inserted>>

\* a member of group g writes a message; the server sends an INSERT event
\* to a joined channel whose filter is g
InsertMessage(g) ==
  /\ inserted < MaxInserts
  /\ inserted' = inserted + 1
  /\ LET m == [id |-> Len(messages) + 1, group_id |-> g]
     IN /\ messages' = Append(messages, m)
        /\ IF channel.joined /\ channel.gid = g
           THEN /\ events' = Append(events, m)
                /\ notified' = notified \cup {m.id}
           ELSE UNCHANGED <<events, notified>>
  /\ UNCHANGED <<timerVars, groupsVars, gid, msgs, loads, channel, selected>>

\* the callback of the subscription: setMsgs(x => [...x, p.new])
ReceiveInsert ==
  /\ events # <<>>
  /\ msgs' = Append(msgs, Head(events))
  /\ events' = Tail(events)
  /\ UNCHANGED <<timerVars, groupsVars, messages, gid, loads, channel,
                 notified, selected, inserted>>

\* the database answers the select of call i of loadMessages
LoadMessagesQuery(i) ==
  /\ i \in 1..Len(loads)
  /\ loads[i].stage = "sent"
  /\ loads' = [loads EXCEPT ![i].stage = "answered",
                            ![i].data = MessagesOf(loads[i].gid)]
  /\ UNCHANGED <<timerVars, groupsVars, messages, gid, msgs, channel, events,
                 notified, selected, inserted>>

\* the answer reaches call i of loadMessages: setMsgs(data || [])
LoadMessagesReturn(i) ==
  /\ i \in 1..Len(loads)
  /\ loads[i].stage = "answered"
  /\ msgs' = loads[i].data
  /\ loads' = RemoveAt(loads, i)
  /\ UNCHANGED <<timerVars, groupsVars, messages, gid, channel, events,
                 notified, selected, inserted>>

\* ---- specification ------------------------------------------------------
Next ==
  \/ ToggleButton
  \/ ToggleKey
  \/ Reset
  \/ SkipButton
  \/ SkipKey
  \/ Tick
  \/ \E t \in timeouts : AutoStart(t)
  \/ Advance
  \/ \E i \in DOMAIN pending, user \in BOOLEAN : GetUserReturn(i, user)
  \/ \E i \in DOMAIN pending, eager, ok \in BOOLEAN : InsertReturn(i, eager, ok)

Spec == Init /\ [][Next]_vars

\* A run in which the user only presses Start, once, and every phase is
\* left to expire.
Start == phase = "idle" /\ ~running /\ commands = 0 /\ ToggleButton

AdvanceNatural == AdvanceTo(NaturalMaxNow)

NaturalNext ==
  \/ Start
  \/ Tick
  \/ \E t \in timeouts : AutoStart(t)
  \/ AdvanceNatural
  \/ \E i \in DOMAIN pending, user \in BOOLEAN : GetUserReturn(i, user)
  \/ \E i \in DOMAIN pending, eager, ok \in BOOLEAN : InsertReturn(i, eager, ok)

NaturalSpec == Init /\ [][NaturalNext]_vars

\* The natural run under the scheduling the browser gives: a due interval or
\* timeout callback runs, time passes, and an awaited request returns.
FairSpec ==
  /\ NaturalSpec
  /\ WF_vars(Tick)
  /\ WF_vars(\E t \in timeouts : AutoStart(t))
  /\ WF_vars(AdvanceNatural)
  /\ WF_vars(\E i \in DOMAIN pending, user \in BOOLEAN : GetUserReturn(i, user))
  /\ WF_vars(\E i \in DOMAIN pending, eager, ok \in BOOLEAN : InsertReturn(i, eager, ok))

\* The timer with its configuration inputs.
ConfigNext ==
  \/ \E text \in InputValues : SetWorkMin(text)
  \/ \E text \in InputValues : SetShortMin(text)
  \/ \E text \in InputValues : SetLongMin(text)
  \/ \E text \in InputValues : SetIntervalsBeforeLong(text)
  \/ Next

ConfigSpec == Init /\ [][ConfigNext]_vars

\* A natural run in which the user also presses Next (button or N key).
SkipNext ==
  \/ Start
  \/ SkipButton
  \/ SkipKey
  \/ Tick
  \/ \E t \in timeouts : AutoStart(t)
  \/ Advance
  \/ \E i \in DOMAIN pending, user \in BOOLEAN : GetUserReturn(i, user)
  \/ \E i \in DOMAIN pending, eager, ok \in BOOLEAN : InsertReturn(i, eager, ok)

SkipSpec == Init /\ [][SkipNext]_vars

\* The same run from the moment the page is mounted, with the load of past
\* sessions in flight.
HistoryNext ==
  \/ \E user \in BOOLEAN : LoadGetUser(user)
  \/ LoadReturn
  \/ Start
  \/ SkipButton
  \/ Tick
  \/ \E t \in timeouts : AutoStart(t)
  \/ Advance
  \/ \E i \in DOMAIN pending, user \in BOOLEAN : GetUserReturn(i, user)
  \/ \E i \in DOMAIN pending, eager, ok \in BOOLEAN : InsertReturn(i, eager, ok)

HistorySpec == HistoryInit /\ [][HistoryNext]_vars

\* The Groups page: the user creates groups.
GroupsNext ==
  \/ \E newName \in NewNames, newCode \in NewCodes : CreateGroup(newName, newCode)
  \/ \E i \in DOMAIN creating, user \in BOOLEAN : CreateGetUser(i, user)
  \/ \E i \in DOMAIN creating, ok \in BOOLEAN : GroupInsertReturn(i, ok)
  \/ \E i \in DOMAIN creating, ok \in BOOLEAN : MemberInsertReturn(i, ok)

GroupsSpec == Init /\ [][GroupsNext]_vars

\* The Chat page: the user selects groups while members write messages.
ChatNext ==
  \/ \E g \in ChatGroups \cup {""} : SelectGroup(g)
  \/ ChannelJoined
  \/ \E g \in ChatGroups : InsertMessage(g)
  \/ ReceiveInsert
  \/ \E i \in DOMAIN loads : LoadMessagesQuery(i)
  \/ \E i \in DOMAIN loads : LoadMessagesReturn(i)

ChatSpec == Init /\ [][ChatNext]_vars

\* ---- properties ------------------------------------------------------------

\* C1: one Focus phase never produces two records.  In a run without reset
\* the number of insert calls is at most the number of Focus phases
\* completed, plus one for a Focus phase whose completion is being saved.
C1_OneRecordPerFocus ==
  mounted =>
    Len(sessions) <= intervalCount + (IF phase = "focus" THEN 1 ELSE 0)

\* C2: in a run of natural expiries the phases alternate Focus, break,
\* Focus, ...; each entry into a break is one more completed interval, the
\* break is long exactly when the number of breaks entered so far is a
\* multiple of intervalsBeforeLong, and it starts with its full duration.
C2_PhaseCycle ==
  [][phase' # phase =>
       \/ phase = "idle" /\ phase' = "focus"
       \/ phase \in Breaks /\ phase' = "focus"
       \/ /\ phase = "focus"
          /\ intervalCount' = intervalCount + 1
          /\ phase' = (IF intervalCount' % intervalsBeforeLong = 0
                       THEN "long" ELSE "short")
          /\ remaining' = Duration(Render, phase')]_vars

\* C3: focusStartRef is set if and only if the phase is Focus.
C3_StartSetIffFocus ==
  mounted => (focusStartRef # Null <=> phase = "focus")

\* C4: while a Focus phase of a natural run (never paused) counts down, the
\* start time that its record will carry is the time the phase began: the
\* time since focusStartRef is the time counted so far, within the
\* auto-start delay and one tick, and so never includes the preceding break.
C4_SpanIsFocusTime ==
  (mounted /\ phase = "focus" /\ running /\ remaining > 0) =>
     /\ focusStartRef # Null
     /\ now - focusStartRef <=
          (workMin * Scale - remaining) + AutoStartDelay + TickPeriod
     /\ now - focusStartRef >= workMin * Scale - remaining

\* C5: intervalCount changes only when a Focus phase completes, which raises
\* it by exactly one, or when it returns to 0; every Focus completion raises
\* it, and it returns to 0 only through reset.
C5_CountSteps ==
  [][/\ intervalCount' # intervalCount =>
          \/ Reset
          \/ phase = "focus" /\ phase' \in Breaks
                /\ intervalCount' = intervalCount + 1
     /\ (phase = "focus" /\ phase' \in Breaks) =>
          intervalCount' = intervalCount + 1]_vars

C7_ResetDiscards ==
  [][LET AtRest ==
        /\ phase = "idle" /\ ~running /\ remaining = 0 /\ intervalCount = 0
        /\ focusStartRef = Null /\ pending = <<>> /\ timeouts = {}
     IN /\ Reset => /\ phase' = "idle" /\ remaining' = 0
                    /\ intervalCount' = 0
                    /\ ~running' /\ focusStartRef' = Null
                    /\ sessions' = sessions /\ pending' = pending
        /\ focusStartRef = Null => sessions' = sessions
        /\ (AtRest /\ commands' = commands) => AtRest']_vars

\* C7 witness: reset() was called on a Focus phase whose save is still
\* waiting for the user lookup; the timer is in Idle and no record exists.
C7_Witness ==
  /\ mounted /\ phase = "idle" /\ ~running /\ remaining = 0
  /\ intervalCount = 0 /\ focusStartRef = Null /\ sessions = <<>>
  /\ now > 0 /\ Len(pending) = 1 /\ pending[1].stage = "getUser"
  /\ pending[1].env.phase = "focus"

\* C8: in a natural run the first Focus phase shows focus duration minus the
\* ticks so far (so 1 after one tick less than the duration) and is left on
\* the tick that brings remaining to 0, not a tick later, for the first break:
\* long when intervalsBeforeLong is 1, else short, with the break's full
\* duration, intervalCount 1 and one record (none when signed out).
C8_FirstInterval ==
  [][LET TicksDone == timerRef - TickPeriod - focusStartRef
     IN /\ (mounted /\ phase = "focus" /\ intervalCount = 0
             /\ pending = <<>>) =>
             /\ remaining = workMin * Scale - TicksDone
             /\ remaining >= 1
        /\ (mounted /\ phase = "focus" /\ intervalCount = 0
             /\ phase' # "focus") =>
             /\ TicksDone = workMin * Scale
             /\ phase' = (IF intervalsBeforeLong = 1 THEN "long" ELSE "short")
             /\ remaining' = Duration(Render, phase')
             /\ intervalCount' = 1
             /\ Len(sessions') <= 1]_vars

\* C9: a skip issued while running with remaining > 0 makes the transition
\* an expiry would make from the same state: from Focus it starts the same
\* handlePhaseEnd call (same closure) as the expiring tick, and the record
\* that call emits spans the time elapsed since the Focus phase began (the
\* time counted so far, within the auto-start delay and one tick); from a
\* break it enters Focus with the focus duration and emits nothing.
C9_SkipIsExpiry ==
  [][((SkipButton \/ SkipKey) /\ running /\ remaining > 0) =>
       /\ effEnv = Render
       /\ phase = "focus" =>
            /\ focusStartRef # Null
            /\ now - focusStartRef <=
                 (workMin * Scale - remaining) + AutoStartDelay + TickPeriod
            /\ pending' = Append(pending, [stage |-> "getUser",
                                           env |-> effEnv,
                                           startAt |-> Null, endAt |-> Null])
       /\ phase \in Breaks =>
            /\ phase' = "focus" /\ remaining' = workMin * Scale
            /\ intervalCount' = intervalCount
            /\ sessions' = sessions /\ pending' = pending]_vars

\* C10: in a natural run the timer restarts on its own and never gets stuck:
\* a phase that has ended with running false is running again later, every
\* Focus phase is followed by a break and every break by a Focus phase (as
\* far as the time horizon of the model leaves room for it).
C10_Restarts ==
  /\ (mounted /\ phase # "idle" /\ ~running /\ now < NaturalMaxNow)
        ~> running
  /\ (mounted /\ phase = "focus"
        /\ now + AutoStartDelay + remaining <= NaturalMaxNow)
        ~> (phase \in Breaks)
  /\ (mounted /\ phase \in Breaks
        /\ now + AutoStartDelay + remaining <= NaturalMaxNow)
        ~> (phase = "focus")
\* C11: a save that fails leaves the timer where a save that succeeds
\* leaves it: in the break that follows the Focus phase of the call, with the
\* break's full duration, one more completed interval, not running and the
\* auto-start scheduled; the failure is shown as a notification, nothing is
\* stored, and no further insert or save is started.
C11_FailedSaveSameTimer ==
  [][("error" \in notice' /\ mounted') =>
       \E i \in DOMAIN pending :
         LET e == pending[i].env
         IN /\ pending[i].stage = "insert"
            /\ ~running'
            /\ phase' = NextBreak(e)
            /\ remaining' = Duration(e, phase')
            /\ intervalCount' = e.intervalCount + 1
            /\ [due |-> now + AutoStartDelay, phase |-> "focus"] \in timeouts'
            /\ sessions' = sessions /\ table' = table
            /\ pending' = RemoveAt(pending, i)]_vars

\* C11 witness: the only save of the run has failed; the timer is in the
\* first break, waiting for the auto-start, and nothing is stored.
C11_Witness ==
  /\ mounted /\ "error" \in notice /\ phase \in Breaks /\ ~running
  /\ intervalCount = 1 /\ remaining = Duration(Render, phase)
  /\ Len(sessions) = 1 /\ table = <<>> /\ pending = <<>>
  /\ timeouts # {}
\* C12: start() in Idle (the Start button or the space key, while not
\* running) sets the phase to Focus, remaining to the configured focus
\* duration, focusStartRef to now and running to true, with intervalCount 0,
\* in one step that emits no record and starts no save.
C12_StartFromIdle ==
  [][((ToggleButton \/ ToggleKey) /\ phase = "idle" /\ ~running) =>
       /\ phase' = "focus"
       /\ remaining' = workMin * Scale
       /\ focusStartRef' = now
       /\ running'
       /\ intervalCount' = 0
       /\ sessions' = sessions /\ pending' = pending]_vars
\* C13: resuming a paused Focus phase (start() with phase Focus and not
\* running) sets running to true and leaves focusStartRef, phase, remaining
\* and intervalCount as they are, so that the record of the phase starts at
\* its original start.
C13_ResumeKeepsStart ==
  [][((ToggleButton \/ ToggleKey) /\ phase = "focus" /\ ~running) =>
       /\ running'
       /\ focusStartRef' = focusStartRef
       /\ phase' = phase /\ remaining' = remaining
       /\ intervalCount' = intervalCount]_vars
\* C14: a skip while not running and a start while running are no-ops: they
\* leave phase, remaining, intervalCount, running and focusStartRef as they
\* are, emit no record, start no save and tell the user nothing.
C14_InvalidCommandsNoOp ==
  [][(\/ (SkipButton \/ SkipKey) /\ ~running
      \/ (ToggleButton \/ ToggleKey) /\ running) =>
       /\ UNCHANGED <<phase, remaining, intervalCount, running, focusStartRef,
                      sessions, pending, mounted>>
       /\ notice' = {}]_vars
\* C15: pause (the Start/Pause control pressed while running) sets running
\* to false and changes nothing else; and it is idempotent: the same control
\* pressed again on the paused timer leaves the state as the first pause
\* left it.
C15_PauseIdempotent ==
  [][/\ ((ToggleButton \/ ToggleKey) /\ running) =>
          /\ ~running'
          /\ UNCHANGED <<phase, remaining, intervalCount, focusStartRef,
                         sessions, pending>>
     /\ ((ToggleButton \/ ToggleKey) /\ ~running /\ phase # "idle") =>
          UNCHANGED <<phase, remaining, intervalCount, running,
                      focusStartRef, sessions, pending>>]_vars
\* C16: a tick lowers remaining by exactly 1 when the timer is running in a
\* phase other than Idle with remaining above 1, and changes nothing else
\* then; a tick while not running or in Idle is a no-op: no state change, no
\* transition, no notification, no record.
C16_TickFrame ==
  [][Tick =>
       /\ (running /\ phase # "idle" /\ remaining > 1) =>
            /\ remaining' = remaining - 1
            /\ UNCHANGED <<phase, intervalCount, running, focusStartRef,
                           sessions, pending>>
       /\ (~running \/ phase = "idle") =>
            /\ UNCHANGED <<phase, remaining, intervalCount, running,
                           focusStartRef, sessions, pending, timeouts>>
            /\ notice' = {}]_vars
\* C17: whatever is typed into the four configuration inputs, the three
\* durations stay above 0 and intervalsBeforeLong stays at least 1, and
\* remaining is never loaded with a duration that is not positive.
C17_ConfigValid ==
  /\ workMin > 0 /\ shortMin > 0 /\ longMin > 0
  /\ intervalsBeforeLong >= 1
  /\ remaining >= 0

\* C18: the count of today's sessions shown on the page is the number of
\* focus records of today: once the load of past sessions has finished and
\* no save is in flight, every row of study_sessions that ended today is
\* counted, without a ceiling at ten.
C18_TodayCount ==
  (mounted /\ load.stage = "done" /\ pending = <<>>)
    => todayCount >= Cardinality(EndedOn(table, now))

\* C19: creating a group makes its creator a member.  When no createGroup
\* call is in flight, every row of study_groups the user has created has
\* the user's row in group_members, and every group the page knows the user
\* has created is among the user's group ids and not in the list of groups
\* available to join.
C19_CreatorIsMember ==
  creating = <<>> =>
    /\ \A g \in studyGroups :
         g.created_by = "me" =>
           [group_id |-> g.id, user_id |-> "me"] \in groupMembers
    /\ \A m \in groupMembers :
         m.user_id = "me" =>
           /\ \E j \in DOMAIN myGroupIds : myGroupIds[j] = m.group_id
           /\ m.group_id \notin available

\* C20: a reset issued between the end of a phase and the delayed auto-start
\* cancels the auto-start.  The timer leaves Idle only by the user's start,
\* so while the phase is Idle the timer is not running, no time remains and
\* no focus start is recorded, also after the delay has elapsed.
C20_ResetCancelsAutoStart ==
  (mounted /\ phase = "idle") =>
    ~running /\ remaining = 0 /\ focusStartRef = Null

\* C21: the transition at the end of a Focus phase does not wait for the
\* save.  No state has a Focus phase that has run out (remaining = 0) and is
\* still the running phase while a call of handlePhaseEnd waits for an
\* answer.
C21_TransitionDoesNotWait ==
  ~(mounted /\ phase = "focus" /\ running /\ remaining = 0 /\ pending # <<>>)

\* C22: a reset issued while the save of a completed Focus phase is in
\* flight is final.  When an answer of that save arrives in the idle state,
\* the page stays as the reset left it: phase Idle, nothing remaining, count
\* 0, not running, no auto-start scheduled.
C22_ResetIsFinal ==
  [][(/\ phase = "idle" /\ ~running
      /\ \/ \E i \in DOMAIN pending, user \in BOOLEAN : GetUserReturn(i, user)
         \/ \E i \in DOMAIN pending, eager, ok \in BOOLEAN :
              InsertReturn(i, eager, ok))
       => /\ mounted'
          /\ phase' = "idle" /\ remaining' = 0 /\ intervalCount' = 0
          /\ ~running' /\ timeouts' \subseteq timeouts]_vars

\* C23: the end of a break, by expiry or by Next, enters Focus with the
\* configured focus duration remaining, leaves the count of completed
\* intervals alone and records nothing, whatever focusStartRef holds.
C23_BreakEnd ==
  [][(/\ phase \in Breaks /\ running
      /\ \/ Tick /\ remaining <= 1
         \/ SkipButton
         \/ SkipKey)
       => /\ phase' = "focus"
          /\ remaining' = workMin * Scale
          /\ intervalCount' = intervalCount
          /\ sessions' = sessions /\ pending' = pending
          /\ table' = table /\ history' = history]_vars

\* C24: when getUserOrWarn answers without a user at the end of a Focus
\* phase, nothing is handed to the insert, nothing is stored and nothing is
\* added to the history, and the call goes on as it does after a save: the
\* break that follows the Focus phase of the call is entered with its full
\* duration, one more completed interval, not running, the recorded start
\* cleared and the auto-start scheduled.
C24_NoUserSameTransition ==
  [][("warn" \in notice') =>
       \E i \in DOMAIN pending :
         LET e == pending[i].env
         IN /\ pending[i].stage = "getUser"
            /\ ~running'
            /\ phase' = NextBreak(e)
            /\ remaining' = Duration(e, phase')
            /\ intervalCount' = e.intervalCount + 1
            /\ focusStartRef' = Null
            /\ [due |-> now + AutoStartDelay, phase |-> "focus"] \in timeouts'
            /\ sessions' = sessions /\ table' = table /\ history' = history
            /\ pending' = RemoveAt(pending, i)]_vars

\* C24 witness: the first Focus phase has ended without a user: a warning
\* is shown, the break stands ready with the auto-start pending, and no
\* record exists anywhere.
C24_Witness ==
  /\ mounted /\ "warn" \in notice /\ phase \in Breaks /\ ~running
  /\ intervalCount = 1 /\ remaining = Duration(Render, phase)
  /\ focusStartRef = Null /\ timeouts # {} /\ pending = <<>>
  /\ sessions = <<>> /\ table = <<>> /\ history = <<>>

\* C25: Idle is entered only by reset.  A step that takes the phase from
\* Focus or a break to Idle is a step of Reset; no tick, expiry, Next,
\* toggle, auto-start or answer of a save does it.
C25_IdleOnlyByReset ==
  [][(phase # "idle" /\ phase' = "idle") => Reset]_vars

\* C25 witness: the page is back in Idle after a run that has completed a
\* Focus phase.
C25_Witness ==
  mounted /\ phase = "idle" /\ commands > 0 /\ Len(sessions) > 0

\* C26: the break announced during a Focus phase is the break entered when
\* that phase ends.  A step that takes the phase from Focus to a break,
\* with the configuration unchanged, enters the break the "Next Break" cell
\* showed before the step.
C26_ShownBreakIsEntered ==
  [][(phase = "focus" /\ phase' \in Breaks /\ UNCHANGED config)
       => phase' = NextBreakShown]_vars

\* C27: the configuration cannot change during a run.  From the start to
\* the reset the phase is not Idle, and no step taken in a phase other than
\* Idle changes one of the four configuration values.
C27_ConfigFixedInRun ==
  [][phase # "idle" => UNCHANGED config]_vars

\* C28: the history list holds persisted records only.  Every entry of
\* history is a row of study_sessions; a session whose save has failed is
\* not in the list.
C28_HistoryIsStored ==
  \A j \in DOMAIN history : \E k \in DOMAIN table : table[k] = history[j]

\* C29: after a switch of the selected group, once every request has been
\* answered and every event delivered, the list shows messages of the
\* selected group only.
C29_OnlySelectedGroup ==
  (gid # "" /\ loads = <<>> /\ events = <<>>)
    => \A j \in DOMAIN msgs : msgs[j].group_id = gid

\* C30: for the first group selected, once the load has been answered and
\* every INSERT event delivered, no message is in the list twice, and every
\* message of the group an INSERT event was delivered for is in the list.
C30_EachMessageOnce ==
  (gid # "" /\ selected = 1 /\ loads = <<>> /\ events = <<>>)
    => \A k \in DOMAIN messages :
         /\ Shown(messages[k]) <= 1
         /\ messages[k].id \in notified => Shown(messages[k]) = 1
====
